---- MODULE Spec2Model ----
(***************************************************************************)
(* Model of the skill-map AI service: SkillMapService.generate_skill_program*)
(* and SkillMapService.update_task_progress (app/services/skill_map.py),    *)
(* the agent's result handling (app/services/skill_agent.py) and the        *)
(* MongoDB collection `skill_maps` they read and write.                     *)
(*                                                                         *)
(* Each request is served by a coroutine; the coroutines interleave at the  *)
(* awaits (agent call, find_one, insert_one, update_one).  The code between *)
(* two awaits runs without interruption, so each action below is one such   *)
(* stretch of code.                                                         *)
(*                                                                         *)
(* Numbers.  completion_percentage values are whole numbers.  An impact     *)
(* factor is held as a whole number of quarters (1 is 0.25, -2 is -0.5):    *)
(* quarters, their sums and their products with 30 are exact in binary      *)
(* floating point, so the integer arithmetic here is the arithmetic the     *)
(* code performs on these inputs.  Timestamps are whole days.               *)
(***************************************************************************)
EXTENDS Integers, Sequences, FiniteSets, TLC

\* ---------------------------------------------------------------- bounds
MaxPlans == 1      \* documents the collection may hold when requests are served one at a time
MaxPlansConcurrent == 2   \* documents the collection may hold under concurrent requests
MaxClock == 1      \* days the clock may advance
MaxShift == 7      \* largest distance of expected_completion_date from its initial value
MaxBatch == 2      \* longest progress_data list
MaxChanges == 2    \* longest context_changes list

\* ---------------------------------------------------- program constants
TimeFrameDays == 30     \* timedelta(days=30) at generation
ImpactDays == 30        \* int(total_impact * 30)
FallbackDays == 30      \* range(1, 31) of the agent's fallback program

Procs == {"req1", "req2"}      \* the requests that can be in flight at the same time

None == [none |-> TRUE]

\* ------------------------------------------------------------ python int()
Digits == {"0", "1", "2", "3", "4", "5", "6", "7", "8", "9"}

DigitVal(c) ==
  CASE c = "0" -> 0 [] c = "1" -> 1 [] c = "2" -> 2 [] c = "3" -> 3 [] c = "4" -> 4
    [] c = "5" -> 5 [] c = "6" -> 6 [] c = "7" -> 7 [] c = "8" -> 8 [] c = "9" -> 9

RECURSIVE DigitsVal(_)
DigitsVal(s) ==
  IF s = <<>> THEN 0
  ELSE DigitsVal(SubSeq(s, 1, Len(s) - 1)) * 10 + DigitVal(s[Len(s)])

RECURSIVE Strip(_)
Strip(s) ==
  IF s = <<>> THEN s
  ELSE IF s[1] = " " THEN Strip(Tail(s))
  ELSE IF s[Len(s)] = " " THEN Strip(SubSeq(s, 1, Len(s) - 1))
  ELSE s

\* int(text) for a str: surrounding blanks are dropped, one sign is allowed,
\* the rest must be decimal digits; anything else raises ValueError.
int(text) ==
  LET t == Strip(text)
      signed == t # <<>> /\ t[1] \in {"+", "-"}
      body == IF signed THEN Tail(t) ELSE t
      good == body # <<>> /\ \A i \in 1..Len(body) : body[i] \in Digits
  IN IF good
     THEN [ok |-> TRUE,
           value |-> IF signed /\ t[1] = "-" THEN 0 - DigitsVal(body) ELSE DigitsVal(body)]
     ELSE [ok |-> FALSE, value |-> 0]

\* int(x) for a float x = num/den with den > 0: truncation toward zero.
IntTrunc_floor(num, den) == num \div den

IntTrunc(num, den) ==
  IF num >= 0 THEN num \div den ELSE 0 - ((0 - num) \div den)


\* ------------------------------------------------------------ data model
\* SkillResource as built during generation: url and description default to "".
SkillResource(resource) ==
  [type |-> resource["type"],
   name |-> resource["name"],
   url |-> IF "url" \in DOMAIN resource THEN resource["url"] ELSE "",
   description |-> IF "description" \in DOMAIN resource THEN resource["description"] ELSE ""]

\* SkillResource(**resource) for a stored resource, and its .dict().
SkillResourceFromDoc(resource) ==
  [type |-> resource["type"],
   name |-> resource["name"],
   url |-> resource["url"],
   description |-> resource["description"]]

TaskRequired == {"day", "name", "description", "difficulty_level", "estimated_hours"}

RawResources(task_data) ==
  IF "resources" \in DOMAIN task_data THEN task_data["resources"] ELSE <<>>

\* The keys the construction of one daily task reads with task_data[...]:
\* a missing one raises KeyError.
TaskDataComplete(task_data) ==
  /\ TaskRequired \subseteq DOMAIN task_data
  /\ \A i \in 1..Len(RawResources(task_data)) :
        {"type", "name"} \subseteq DOMAIN RawResources(task_data)[i]

\* A variant that takes over the progress and status of the raw entry.
NewDailyTask_rawProgress(task_data) ==
  [day |-> task_data["day"],
   name |-> task_data["name"],
   description |-> task_data["description"],
   difficulty_level |-> task_data["difficulty_level"],
   estimated_hours |-> task_data["estimated_hours"],
   resources |-> [i \in 1..Len(RawResources(task_data)) |->
                    SkillResource(RawResources(task_data)[i])],
   progress |-> IF "progress" \in DOMAIN task_data THEN task_data["progress"] ELSE 0,
   status |-> IF "status" \in DOMAIN task_data THEN task_data["status"] ELSE "not_started"]

\* DailyTask(...) of generate_skill_program: a fresh task, whatever progress
\* or status the raw entry carries.
NewDailyTask(task_data) ==
  [day |-> task_data["day"],
   name |-> task_data["name"],
   description |-> task_data["description"],
   difficulty_level |-> task_data["difficulty_level"],
   estimated_hours |-> task_data["estimated_hours"],
   resources |-> [i \in 1..Len(RawResources(task_data)) |->
                    SkillResource(RawResources(task_data)[i])],
   progress |-> 0,
   status |-> "not_started"]

\* A variant that rebuilds the task without its resources.
StoredDailyTask_noResources(task_data) ==
  [day |-> task_data["day"],
   name |-> task_data["name"],
   description |-> task_data["description"],
   difficulty_level |-> task_data["difficulty_level"],
   estimated_hours |-> task_data["estimated_hours"],
   resources |-> <<>>,
   progress |-> IF "progress" \in DOMAIN task_data THEN task_data["progress"] ELSE 0,
   status |-> IF "status" \in DOMAIN task_data THEN task_data["status"] ELSE "not_started"]

\* DailyTask(...) of update_task_progress: the task rebuilt from its stored form.
StoredDailyTask(task_data) ==
  [day |-> task_data["day"],
   name |-> task_data["name"],
   description |-> task_data["description"],
   difficulty_level |-> task_data["difficulty_level"],
   estimated_hours |-> task_data["estimated_hours"],
   resources |-> [i \in 1..Len(RawResources(task_data)) |->
                    SkillResourceFromDoc(RawResources(task_data)[i])],
   progress |-> IF "progress" \in DOMAIN task_data THEN task_data["progress"] ELSE 0,
   status |-> IF "status" \in DOMAIN task_data THEN task_data["status"] ELSE "not_started"]

RECURSIVE SumHours(_)
SumHours(tasks) ==
  IF tasks = <<>> THEN 0 ELSE tasks[1].estimated_hours + SumHours(Tail(tasks))

\* ------------------------------------------------------------- the agent
SkillNames == {"Go"}

\* A variant whose days are numbered from 0.
FallbackProgram_fromZero(skill_name) ==
  [skill_program |->
     [skill_name |-> skill_name,
      description |-> "30-day skill program for " \o skill_name,
      total_hours |-> 30,
      daily_tasks |->
        [i \in 1..FallbackDays |->
           [day |-> i - 1,
            name |-> "Day " \o ToString(i - 1) \o " of " \o skill_name,
            description |-> "Basic task for day " \o ToString(i - 1),
            difficulty_level |-> "Beginner",
            estimated_hours |-> 1,
            resources |-> << [type |-> "general", name |-> "Introduction resources"] >>]]]]

\* The simplified structure generate_skill_hierarchy returns when the agent
\* raises or its output is not JSON.
FallbackProgram(skill_name) ==
  [skill_program |->
     [skill_name |-> skill_name,
      description |-> "30-day skill program for " \o skill_name,
      total_hours |-> 30,
      daily_tasks |->
        [i \in 1..FallbackDays |->
           [day |-> i,
            name |-> "Day " \o ToString(i) \o " of " \o skill_name,
            description |-> "Basic task for day " \o ToString(i),
            difficulty_level |-> "Beginner",
            estimated_hours |-> 1,
            resources |-> << [type |-> "general", name |-> "Introduction resources"] >>]]]]

\* Raw daily tasks a language model may produce.
RawDay1 ==
  [day |-> 1, name |-> "Install", description |-> "Set up the toolchain",
   difficulty_level |-> "Beginner", estimated_hours |-> 1,
   resources |-> << [type |-> "article", name |-> "Getting started"] >>]

RawDay2 ==
  [day |-> 2, name |-> "Types", description |-> "Basic types",
   difficulty_level |-> "Intermediate", estimated_hours |-> 2,
   progress |-> 50, status |-> "completed"]

RawDay1Again ==
  [day |-> 1, name |-> "Packages", description |-> "Modules and packages",
   difficulty_level |-> "Beginner", estimated_hours |-> 2,
   resources |-> << [type |-> "video", name |-> "Tour", url |-> "http://tour",
                     description |-> "A tour"] >>]

RawNoName ==
  [day |-> 2, description |-> "No name", difficulty_level |-> "Beginner",
   estimated_hours |-> 1]

RawProgram(tasks) ==
  [skill_program |->
     [skill_name |-> "Go", description |-> "Learn Go", total_hours |-> 99,
      daily_tasks |-> tasks]]

\* What the agent run can end in: an exception, text that is not JSON, or
\* JSON text with the parsed data.
AgentOutcomes ==
  { [kind |-> "raises", data |-> None],
    [kind |-> "not_json", data |-> None],
    [kind |-> "json", data |-> RawProgram(<<RawDay1, RawDay2>>)],
    [kind |-> "json", data |-> RawProgram(<<RawDay1, RawDay1Again>>)],
    [kind |-> "json", data |-> RawProgram(<<RawDay1, RawNoName>>)] }

generate_skill_hierarchy(skill_name, outcome) ==
  IF outcome.kind = "json" THEN outcome.data ELSE FallbackProgram(skill_name)

UserProfiles == { None, [user_id |-> "u1"] }


\* -------------------------------------------------- requests of the callers
\* ProgressData values the callers send (node_id, completion_percentage).
Reports ==
  { [node_id |-> <<"1">>, completion_percentage |-> 50],
    [node_id |-> <<"1">>, completion_percentage |-> 100],
    [node_id |-> <<"2">>, completion_percentage |-> 150],
    [node_id |-> <<"0", "2">>, completion_percentage |-> 0],
    [node_id |-> <<"3", "1">>, completion_percentage |-> -10],
    [node_id |-> <<"a">>, completion_percentage |-> 50] }

ProgressBatches == UNION { [1..n -> Reports] : n \in 0..MaxBatch }

\* impact_factor values, in quarters.
ImpactFactors == { 1, -2 }

\* context_changes: absent (None) or a list of ContextChange.
ContextChangeLists ==
  { [present |-> FALSE, changes |-> <<>>] } \cup
  { [present |-> TRUE, changes |-> c] :
      c \in UNION { [1..n -> [impact_factor : ImpactFactors]] : n \in 0..MaxChanges } }

\* ObjectId(skill_program_id): 0 stands for a string that is no ObjectId.
ObjectId(skill_program_id) ==
  [ok |-> skill_program_id >= 1, oid |-> skill_program_id]

\* ------------------------------------------------------ the progress update
determine_status_le(completion_percentage) ==
  IF completion_percentage = 0 THEN "not_started"
  ELSE IF completion_percentage <= 100 THEN "in_progress"
  ELSE "completed"

determine_status(completion_percentage) ==
  IF completion_percentage = 0 THEN "not_started"
  ELSE IF completion_percentage < 100 THEN "in_progress"
  ELSE "completed"

\* A variant of the inner loop that adds the report to the progress held.
ApplyReport_accumulate(tasks, day, completion_percentage) ==
  [i \in 1..Len(tasks) |->
     IF tasks[i].day = day
     THEN [tasks[i] EXCEPT
             !.progress = tasks[i].progress + completion_percentage,
             !.status = determine_status(tasks[i].progress + completion_percentage)]
     ELSE tasks[i]]

\* A variant of the inner loop that forgets the test on the day.
ApplyReport_everyTask(tasks, day, completion_percentage) ==
  [i \in 1..Len(tasks) |->
     [tasks[i] EXCEPT !.progress = completion_percentage,
                      !.status = determine_status(completion_percentage)]]

\* The inner loop: every task whose day is the reported day takes the
\* reported progress and the status derived from it.
ApplyReport(tasks, day, completion_percentage) ==
  [i \in 1..Len(tasks) |->
     IF tasks[i].day = day
     THEN [tasks[i] EXCEPT !.progress = completion_percentage,
                           !.status = determine_status(completion_percentage)]
     ELSE tasks[i]]

\* A variant that goes through the batch from its end.
RECURSIVE ApplyProgress_fromEnd(_, _)
ApplyProgress_fromEnd(tasks, progress_data) ==
  IF progress_data = <<>> THEN [ok |-> TRUE, tasks |-> tasks]
  ELSE LET n == Len(progress_data)
           day == int(progress_data[n].node_id)
       IN IF ~day.ok THEN [ok |-> FALSE, tasks |-> tasks]
          ELSE ApplyProgress_fromEnd(
                 ApplyReport(tasks, day.value, progress_data[n].completion_percentage),
                 SubSeq(progress_data, 1, n - 1))

\* The outer loop, in batch order; int(node_id) raising ends it.
RECURSIVE ApplyProgress(_, _)
ApplyProgress(tasks, progress_data) ==
  IF progress_data = <<>> THEN [ok |-> TRUE, tasks |-> tasks]
  ELSE LET day == int(progress_data[1].node_id)
       IN IF ~day.ok THEN [ok |-> FALSE, tasks |-> tasks]
          ELSE ApplyProgress(
                 ApplyReport(tasks, day.value, progress_data[1].completion_percentage),
                 Tail(progress_data))

RECURSIVE TotalImpact(_)
TotalImpact(changes) ==
  IF changes = <<>> THEN 0 ELSE changes[1].impact_factor + TotalImpact(Tail(changes))

\* days_adjustment = int(total_impact * 30), the factors being quarters.
DaysAdjustment(changes) == IntTrunc(TotalImpact(changes) * ImpactDays, 4)

\* `if context_changes:` is false for None and for the empty list.
AdjustedCompletion(date, context_changes) ==
  IF context_changes.present /\ context_changes.changes # <<>>
  THEN date + DaysAdjustment(context_changes.changes)
  ELSE date

\* ------------------------------------------------------------ the collection
\* {"$set": patch} on one document.
SetFields(doc, patch) ==
  [k \in DOMAIN doc \cup DOMAIN patch |-> IF k \in DOMAIN patch THEN patch[k] ELSE doc[k]]

\* A variant whose filter matches every document.
update_one_everyDocument(coll, oid, patch) ==
  [i \in DOMAIN coll |-> SetFields(coll[i], patch)]

update_one(coll, oid, patch) ==
  [i \in DOMAIN coll |-> IF i = oid THEN SetFields(coll[i], patch) ELSE coll[i]]

\* A variant that reuses the first identifier.
insert_one_sameId(coll, doc) ==
  [i \in DOMAIN coll \cup {1} |-> IF i = 1 THEN doc ELSE coll[i]]

\* insert_one gives the document an identifier no stored document has.
insert_one(coll, doc) ==
  [i \in DOMAIN coll \cup {Cardinality(DOMAIN coll) + 1} |->
     IF i \in DOMAIN coll THEN coll[i] ELSE doc]

find_one(coll, oid) == IF oid \in DOMAIN coll THEN coll[oid] ELSE None


\* ------------------------------------------------------------------- state
VARIABLES
  store,                    \* the skill_maps collection: identifier -> document
  now,                      \* datetime.now(), in days
  pc,                       \* where each request's coroutine stands
  req,                      \* the arguments of each request
  skill_program_doc,        \* local: the document read, or the one to insert
  daily_tasks,              \* local: the list of DailyTask objects
  expected_completion_date, \* local
  result                    \* what the service call gave its caller

vars == <<store, now, pc, req, skill_program_doc, daily_tasks,
          expected_completion_date, result>>

NoResult == [kind |-> "none"]
Raised(error, message) == [kind |-> "error", error |-> error, message |-> message]
Returned(program) == [kind |-> "ok", program |-> program]

SkillProgram(id, doc, tasks, date) ==
  [id |-> id,
   skill_name |-> doc["skill_name"],
   description |-> doc["description"],
   total_hours |-> doc["total_hours"],
   daily_tasks |-> tasks,
   expected_completion_date |-> date]

Init ==
  /\ store = [i \in {} |-> None]
  /\ now = 0
  /\ pc = [p \in Procs |-> "idle"]
  /\ req = [p \in Procs |-> None]
  /\ skill_program_doc = [p \in Procs |-> None]
  /\ daily_tasks = [p \in Procs |-> <<>>]
  /\ expected_completion_date = [p \in Procs |-> 0]
  /\ result = [p \in Procs |-> NoResult]

\* The request ends with an exception: the locals are gone.
Fail(p, request, error, message) ==
  /\ pc' = [pc EXCEPT ![p] = "done"]
  /\ req' = [req EXCEPT ![p] = request]
  /\ result' = [result EXCEPT ![p] = Raised(error, message)]
  /\ skill_program_doc' = [skill_program_doc EXCEPT ![p] = None]
  /\ daily_tasks' = [daily_tasks EXCEPT ![p] = <<>>]
  /\ expected_completion_date' = [expected_completion_date EXCEPT ![p] = 0]

\* ------------------------------------------------- generate_skill_program
\* A variant that stores the total the generator reports.
SkillProgramDoc_reportedTotal(data, tasks, user_profile) ==
  LET doc == [skill_name |-> data["skill_name"],
              description |-> data["description"],
              total_hours |-> data["total_hours"],
              daily_tasks |-> tasks,
              expected_completion_date |-> now + TimeFrameDays,
              created_at |-> now,
              updated_at |-> now]
  IN IF user_profile = None THEN doc
     ELSE SetFields(doc, [user_id |-> user_profile["user_id"]])

SkillProgramDoc(data, tasks, user_profile) ==
  LET doc == [skill_name |-> data["skill_name"],
              description |-> data["description"],
              total_hours |-> SumHours(tasks),
              daily_tasks |-> tasks,
              expected_completion_date |-> now + TimeFrameDays,
              created_at |-> now,
              updated_at |-> now]
  IN IF user_profile = None THEN doc
     ELSE SetFields(doc, [user_id |-> user_profile["user_id"]])

Inserting == { p \in Procs : pc[p] = "insert_one" }

\* From the call to the await of insert_one: the agent's result is turned
\* into the document to store.
GenerateProgram(p, skill_name, user_profile, outcome) ==
  /\ pc[p] = "idle"
  /\ LET request == [op |-> "generate", skill_name |-> skill_name,
                     user_profile |-> user_profile, outcome |-> outcome]
         data == generate_skill_hierarchy(skill_name, outcome)["skill_program"]
         raw == data["daily_tasks"]
     IN IF \E i \in 1..Len(raw) : ~TaskDataComplete(raw[i])
        THEN Fail(p, request, "KeyError", "missing key")
        ELSE LET tasks == [i \in 1..Len(raw) |-> NewDailyTask(raw[i])]
             IN /\ pc' = [pc EXCEPT ![p] = "insert_one"]
                /\ req' = [req EXCEPT ![p] = request]
                /\ daily_tasks' = [daily_tasks EXCEPT ![p] = tasks]
                /\ skill_program_doc' =
                     [skill_program_doc EXCEPT ![p] = SkillProgramDoc(data, tasks, user_profile)]
                /\ expected_completion_date' =
                     [expected_completion_date EXCEPT ![p] = now + TimeFrameDays]
                /\ result' = result
  /\ UNCHANGED <<store, now>>

\* insert_one completes and the SkillProgram is returned.
InsertOne(p) ==
  /\ pc[p] = "insert_one"
  /\ store' = insert_one(store, skill_program_doc[p])
  /\ pc' = [pc EXCEPT ![p] = "done"]
  /\ result' = [result EXCEPT ![p] =
       Returned(SkillProgram(Cardinality(DOMAIN store) + 1, skill_program_doc[p],
                             daily_tasks[p], expected_completion_date[p]))]
  /\ UNCHANGED <<now, req, skill_program_doc, daily_tasks, expected_completion_date>>

\* A variant that answers a failed insert_one with the program it built.
InsertOneFails_swallowed(p) ==
  /\ pc[p] = "insert_one"
  /\ pc' = [pc EXCEPT ![p] = "done"]
  /\ result' = [result EXCEPT ![p] =
       Returned(SkillProgram(Cardinality(DOMAIN store) + 1, skill_program_doc[p],
                             daily_tasks[p], expected_completion_date[p]))]
  /\ UNCHANGED <<store, now, req, skill_program_doc, daily_tasks, expected_completion_date>>

\* insert_one raises: nothing is stored, the exception is re-raised.
InsertOneFails(p) ==
  /\ pc[p] = "insert_one"
  /\ Fail(p, req[p], "StoreError", "insert_one failed")
  /\ UNCHANGED <<store, now>>


\* --------------------------------------------------- update_task_progress
UpdateRequest(skill_program_id, progress_data, context_changes) ==
  [op |-> "update", skill_program_id |-> skill_program_id,
   progress_data |-> progress_data, context_changes |-> context_changes]

Abs(n) == IF n < 0 THEN 0 - n ELSE n

\* The model follows a plan only while its expected completion stays within
\* MaxShift days of the date generation gave it.
WithinShift(doc, context_changes) ==
  IF doc = None THEN TRUE
  ELSE Abs(AdjustedCompletion(doc["expected_completion_date"], context_changes)
             - (doc["created_at"] + TimeFrameDays)) <= MaxShift

\* From the completion of find_one to the await of update_one: the document
\* is turned into DailyTask objects, the reports are applied to them and the
\* expected completion date is adjusted.  Nothing is written yet.
UpdateFindOne(p, skill_program_id, progress_data, context_changes) ==
  /\ pc[p] = "idle"
  /\ LET request == UpdateRequest(skill_program_id, progress_data, context_changes)
         oid == ObjectId(skill_program_id)
         doc == find_one(store, skill_program_id)
     IN /\ WithinShift(doc, context_changes)
        /\ IF ~oid.ok
           THEN Fail(p, request, "InvalidId", "not a valid ObjectId")
           ELSE IF doc = None
           THEN Fail(p, request, "ValueError", "not found")
           ELSE LET stored == doc["daily_tasks"]
                    tasks == [i \in 1..Len(stored) |-> StoredDailyTask(stored[i])]
                    applied == ApplyProgress(tasks, progress_data)
                IN IF ~applied.ok
                   THEN Fail(p, request, "ValueError", "invalid literal for int()")
                   ELSE /\ pc' = [pc EXCEPT ![p] = "update_one"]
                        /\ req' = [req EXCEPT ![p] = request]
                        /\ skill_program_doc' = [skill_program_doc EXCEPT ![p] = doc]
                        /\ daily_tasks' = [daily_tasks EXCEPT ![p] = applied.tasks]
                        /\ expected_completion_date' =
                             [expected_completion_date EXCEPT ![p] =
                                AdjustedCompletion(doc["expected_completion_date"],
                                                   context_changes)]
                        /\ result' = result
  /\ UNCHANGED <<store, now>>

\* find_one raises: the exception is re-raised.
UpdateFindOneFails(p, skill_program_id, progress_data, context_changes) ==
  /\ pc[p] = "idle"
  /\ ObjectId(skill_program_id).ok
  /\ Fail(p, UpdateRequest(skill_program_id, progress_data, context_changes),
          "StoreError", "find_one failed")
  /\ UNCHANGED <<store, now>>

\* A variant that forgets the expected completion date.
UpdatePatch_noDate(p) ==
  [daily_tasks |-> daily_tasks[p],
   updated_at |-> now]

UpdatePatch(p) ==
  [daily_tasks |-> daily_tasks[p],
   expected_completion_date |-> expected_completion_date[p],
   updated_at |-> now]

\* A variant in which the write reaches the store although the call raises.
UpdateOneFails_written(p) ==
  /\ pc[p] = "update_one"
  /\ store' = update_one(store, req[p].skill_program_id, UpdatePatch(p))
  /\ Fail(p, req[p], "StoreError", "update_one failed")
  /\ UNCHANGED now

\* update_one completes: the task list, the expected completion date and
\* updated_at of the document are replaced, and the SkillProgram is returned.
UpdateOne(p) ==
  /\ pc[p] = "update_one"
  /\ store' = update_one(store, req[p].skill_program_id, UpdatePatch(p))
  /\ pc' = [pc EXCEPT ![p] = "done"]
  /\ result' = [result EXCEPT ![p] =
       Returned(SkillProgram(req[p].skill_program_id, skill_program_doc[p],
                             daily_tasks[p], expected_completion_date[p]))]
  /\ UNCHANGED <<now, req, skill_program_doc, daily_tasks, expected_completion_date>>

\* update_one raises: nothing is written, the exception is re-raised.
UpdateOneFails(p) ==
  /\ pc[p] = "update_one"
  /\ Fail(p, req[p], "StoreError", "update_one failed")
  /\ UNCHANGED <<store, now>>

\* The caller has its answer; the coroutine is gone.
Return(p) ==
  /\ pc[p] = "done"
  /\ pc' = [pc EXCEPT ![p] = "idle"]
  /\ req' = [req EXCEPT ![p] = None]
  /\ result' = [result EXCEPT ![p] = NoResult]
  /\ skill_program_doc' = [skill_program_doc EXCEPT ![p] = None]
  /\ daily_tasks' = [daily_tasks EXCEPT ![p] = <<>>]
  /\ expected_completion_date' = [expected_completion_date EXCEPT ![p] = 0]
  /\ UNCHANGED <<store, now>>

Tick ==
  /\ now < MaxClock
  /\ now' = now + 1
  /\ UNCHANGED <<store, pc, req, skill_program_doc, daily_tasks,
                 expected_completion_date, result>>

\* The model follows the collection up to `most` documents.
PlansBelow(most) == Cardinality(DOMAIN store) + Cardinality(Inserting) < most

\* Requests served one at a time, with the full range of inputs.
Serial == {"req1"}

\* Identifiers a stored program can have, and two it cannot: 0 is no ObjectId
\* and MaxPlans + 1 is never given out.
StoredIds == 1..MaxPlans
UnknownIds == {0, MaxPlans + 1}

NoChanges == [present |-> FALSE, changes |-> <<>>]

Next ==
  \/ \E p \in Serial, s \in SkillNames, u \in UserProfiles, o \in AgentOutcomes :
        PlansBelow(MaxPlans) /\ GenerateProgram(p, s, u, o)
  \/ \E p \in Serial : InsertOne(p)
  \/ \E p \in Serial : InsertOneFails(p)
  \/ \E p \in Serial, id \in StoredIds, pd \in ProgressBatches,
        cc \in ContextChangeLists : UpdateFindOne(p, id, pd, cc)
  \/ \E p \in Serial, id \in UnknownIds, pd \in [1..1 -> Reports] :
        UpdateFindOne(p, id, pd, NoChanges)
  \/ \E p \in Serial, id \in StoredIds : UpdateFindOneFails(p, id, <<>>, NoChanges)
  \/ \E p \in Serial : UpdateOne(p)
  \/ \E p \in Serial : UpdateOneFails(p)
  \/ \E p \in Serial : Return(p)
  \/ Tick

Spec == Init /\ [][Next]_vars

\* Requests in flight together, within one day, with a few inputs each.
ConcurrentOutcomes ==
  { [kind |-> "json", data |-> RawProgram(<<RawDay1, RawDay2>>)] }

ConcurrentUpdates ==
  { [progress_data |-> << [node_id |-> <<"1">>, completion_percentage |-> 50] >>,
     context_changes |-> [present |-> FALSE, changes |-> <<>>]],
    [progress_data |-> << [node_id |-> <<"2">>, completion_percentage |-> 150] >>,
     context_changes |-> [present |-> TRUE, changes |-> << [impact_factor |-> 1] >>]] }

NextConcurrent ==
  \/ \E p \in Procs, s \in SkillNames, o \in ConcurrentOutcomes :
        PlansBelow(MaxPlansConcurrent) /\ GenerateProgram(p, s, None, o)
  \/ \E p \in Procs : InsertOne(p)
  \/ \E p \in Procs : InsertOneFails(p)
  \/ \E p \in Procs, id \in 1..MaxPlansConcurrent, u \in ConcurrentUpdates :
        UpdateFindOne(p, id, u.progress_data, u.context_changes)
  \/ \E p \in Procs : UpdateOne(p)
  \/ \E p \in Procs : UpdateOneFails(p)
  \/ \E p \in Procs : Return(p)

SpecConcurrent == Init /\ [][NextConcurrent]_vars


\* ------------------------------------------- _create_nodes_from_llm_output
\* The largest depth a raw node reports for itself.
MaxDepth == 2

\* dict.get(key) of an optional string: <<>> stands for None, <<v>> for v.
Get(dict, key) == IF key \in DOMAIN dict THEN << dict[key] >> ELSE <<>>

\* SkillResource as built for a node: url and description come from .get().
SkillResourceOfNode(resource) ==
  [type |-> resource["type"],
   name |-> resource["name"],
   url |-> Get(resource, "url"),
   description |-> Get(resource, "description")]

NodeRequired == {"name", "description", "estimated_hours"}

NodeResources(skill_data) ==
  IF "resources" \in DOMAIN skill_data THEN skill_data["resources"] ELSE <<>>

\* The keys the construction of one node reads with [...]: a missing one
\* raises KeyError.
NodeDataComplete(skill_data) ==
  /\ NodeRequired \subseteq DOMAIN skill_data
  /\ \A i \in 1..Len(NodeResources(skill_data)) :
        {"type", "name"} \subseteq DOMAIN NodeResources(skill_data)[i]

\* SkillNode(...) of _create_nodes_from_llm_output.
SkillNode(skill_id, skill_data) ==
  [id |-> skill_id,
   name |-> skill_data["name"],
   description |-> skill_data["description"],
   estimated_hours |-> skill_data["estimated_hours"],
   parent_id |-> Get(skill_data, "parent_id"),
   children |-> IF "children" \in DOMAIN skill_data THEN skill_data["children"] ELSE <<>>,
   resources |-> [i \in 1..Len(NodeResources(skill_data)) |->
                    SkillResourceOfNode(NodeResources(skill_data)[i])],
   depth |-> IF "depth" \in DOMAIN skill_data THEN skill_data["depth"] ELSE 0,
   progress |-> 0,
   status |-> "not_started"]

create_nodes_from_llm_output(skills_data) ==
  IF \E skill_id \in DOMAIN skills_data : ~NodeDataComplete(skills_data[skill_id])
  THEN [ok |-> FALSE]
  ELSE [ok |-> TRUE,
        nodes |-> [skill_id \in DOMAIN skills_data |->
                     SkillNode(skill_id, skills_data[skill_id])]]

\* The depth a raw node reports for itself: none, or one of 0..MaxDepth.
ReportedDepths == {<<>>} \cup { <<d>> : d \in 0..MaxDepth }

WithDepth(skill_data, reported) ==
  IF reported = <<>> THEN skill_data ELSE [depth |-> reported[1]] @@ skill_data

\* Raw trees a language model may produce: a root, its child a, and a node b
\* under the root or under a; each node reports any depth or none, and b may
\* come without a name.
RawTree(parent_of_b, depth_root, depth_a, depth_b, b_named) ==
  [root |-> WithDepth(
              [name |-> "Go", description |-> "d", estimated_hours |-> 0,
               children |-> IF parent_of_b = "root" THEN <<"a", "b">> ELSE <<"a">>,
               resources |-> << [type |-> "article", name |-> "Getting started"] >>],
              depth_root),
   a |-> WithDepth(
              [name |-> "Basics", description |-> "d2", estimated_hours |-> 10,
               parent_id |-> "root",
               children |-> IF parent_of_b = "a" THEN <<"b">> ELSE <<>>],
              depth_a),
   b |-> WithDepth(
              IF b_named
              THEN [name |-> "Types", description |-> "d3", estimated_hours |-> 5,
                    parent_id |-> parent_of_b]
              ELSE [description |-> "d3", estimated_hours |-> 5,
                    parent_id |-> parent_of_b],
              depth_b)]

SkillsData ==
  { RawTree(parent_of_b, depth_root, depth_a, depth_b, b_named) :
      parent_of_b \in {"root", "a"},
      depth_root \in ReportedDepths, depth_a \in ReportedDepths,
      depth_b \in ReportedDepths, b_named \in BOOLEAN }

\* One call of _create_nodes_from_llm_output, from its caller's side.
CreateNodes(p, skills_data) ==
  /\ pc[p] = "idle"
  /\ LET request == [op |-> "create_nodes", skills_data |-> skills_data]
         created == create_nodes_from_llm_output(skills_data)
     IN IF ~created.ok
        THEN Fail(p, request, "KeyError", "missing key")
        ELSE /\ pc' = [pc EXCEPT ![p] = "done"]
             /\ req' = [req EXCEPT ![p] = request]
             /\ result' = [result EXCEPT ![p] = [kind |-> "ok", nodes |-> created.nodes]]
             /\ UNCHANGED <<skill_program_doc, daily_tasks, expected_completion_date>>
  /\ UNCHANGED <<store, now>>

NextNodes ==
  \/ \E p \in Serial, skills_data \in SkillsData : CreateNodes(p, skills_data)
  \/ \E p \in Serial : Return(p)

SpecNodes == Init /\ [][NextNodes]_vars


\* ------------------------------------------------ the same update, twice
\* The caller q sends the update that the caller p has just been answered,
\* with the same arguments.
Repeat(p, q) ==
  /\ pc[p] = "done"
  /\ result[p].kind = "ok"
  /\ req[p].op = "update"
  /\ UpdateFindOne(q, req[p].skill_program_id, req[p].progress_data,
                   req[p].context_changes)

\* One request after the other: req2 only ever repeats the update req1 has
\* been answered, and req1 goes on once req2 is gone.
NextRepeat ==
  \/ \E s \in SkillNames, o \in AgentOutcomes :
        PlansBelow(MaxPlans) /\ GenerateProgram("req1", s, None, o)
  \/ InsertOne("req1")
  \/ \E id \in StoredIds, pd \in ProgressBatches, cc \in ContextChangeLists :
        UpdateFindOne("req1", id, pd, cc)
  \/ UpdateOne("req1")
  \/ Repeat("req1", "req2")
  \/ UpdateOne("req2")
  \/ Return("req2")
  \/ pc["req2"] = "idle" /\ Return("req1")

SpecRepeat == Init /\ [][NextRepeat]_vars


\* =================================================================== claims
IsUpdate(p) == "op" \in DOMAIN req[p] /\ req[p].op = "update"

\* The update of p has applied its reports and adjusted the date.
Applied(p) ==
  /\ IsUpdate(p)
  /\ \/ pc[p] = "update_one"
     \/ pc[p] = "done" /\ result[p].kind = "ok"

\* The update of p has returned its SkillProgram.
UpdateReturned(p) == IsUpdate(p) /\ pc[p] = "done" /\ result[p].kind = "ok"

\* The update of p has ended with an exception that is not the store's.
UpdateRaised(p) ==
  /\ IsUpdate(p) /\ pc[p] = "done" /\ result[p].kind = "error"
  /\ result[p].error # "StoreError"

\* Some report of the batch names the day.
Named(progress_data, day) ==
  \E i \in 1..Len(progress_data) :
     int(progress_data[i].node_id).ok /\ int(progress_data[i].node_id).value = day

AllTasks ==
  UNION { { store[id]["daily_tasks"][i] : i \in 1..Len(store[id]["daily_tasks"]) } :
            id \in DOMAIN store }
  \cup UNION { { daily_tasks[p][i] : i \in 1..Len(daily_tasks[p]) } : p \in Procs }

\* C1: the status the update gives a task is not_started for progress 0,
\* in_progress for progress strictly between 0 and 100 and completed for
\* progress of 100 or more, and two tasks of equal progress never differ in
\* status.
C1_StatusFromProgress ==
  /\ \A p \in Procs : Applied(p) =>
       \A i \in 1..Len(daily_tasks[p]) :
          LET t == daily_tasks[p][i]
          IN Named(req[p].progress_data, t.day) =>
               /\ (t.progress = 0 => t.status = "not_started")
               /\ (t.progress > 0 /\ t.progress < 100 => t.status = "in_progress")
               /\ (t.progress >= 100 => t.status = "completed")
  /\ \A t1, t2 \in AllTasks : t1.progress = t2.progress => t1.status = t2.status

\* An update has set one task to exactly 100 and another to exactly 0.
C1_Witness ==
  \E p \in Procs : UpdateReturned(p) /\
     \E i, j \in 1..Len(daily_tasks[p]) :
        /\ Named(req[p].progress_data, daily_tasks[p][i].day)
        /\ Named(req[p].progress_data, daily_tasks[p][j].day)
        /\ daily_tasks[p][i].progress = 100
        /\ daily_tasks[p][j].progress = 0

OutOfRange(progress_data) ==
  \E i \in 1..Len(progress_data) :
     \/ progress_data[i].completion_percentage < 0
     \/ progress_data[i].completion_percentage > 100

AllParse(progress_data) ==
  \A i \in 1..Len(progress_data) : int(progress_data[i].node_id).ok

\* C2: an update of a stored plan whose batch holds a completion percentage
\* outside 0..100 ends with InvalidProgressValueError (unless the store itself
\* failed), and the stored tasks are the ones the update read.
C2_OutOfRangeRejected ==
  \A p \in Procs :
     ( /\ IsUpdate(p) /\ pc[p] = "done"
       /\ req[p].skill_program_id \in DOMAIN store
       /\ AllParse(req[p].progress_data)
       /\ OutOfRange(req[p].progress_data) )
     =>   /\ result[p].kind = "error"
          /\ result[p].error \in {"InvalidProgressValueError", "StoreError"}
          /\ store[req[p].skill_program_id]["daily_tasks"]
               = skill_program_doc[p]["daily_tasks"]

\* No report of the batch resolves to a task of the stored plan.
NoneResolves(progress_data, id) ==
  \A i \in 1..Len(progress_data) :
     ~ ( /\ int(progress_data[i].node_id).ok
         /\ \E k \in 1..Len(store[id]["daily_tasks"]) :
               store[id]["daily_tasks"][k].day = int(progress_data[i].node_id).value )

ProgressAndStatus(tasks) ==
  [i \in 1..Len(tasks) |-> <<tasks[i].progress, tasks[i].status>>]

\* C3: an update of a stored plan none of whose reports resolves to a task of
\* the plan, whatever the target strings are, does not raise, and returns
\* and stores the progress and status the plan had.
C3_UnresolvedIgnored ==
  \A p \in Procs :
     ( /\ IsUpdate(p) /\ pc[p] = "done"
       /\ req[p].skill_program_id \in DOMAIN store
       /\ req[p].progress_data # <<>>
       /\ NoneResolves(req[p].progress_data, req[p].skill_program_id)
       /\ ~ (result[p].kind = "error" /\ result[p].error = "StoreError") )
     => /\ result[p].kind = "ok"
        /\ ProgressAndStatus(result[p].program.daily_tasks)
             = ProgressAndStatus(skill_program_doc[p]["daily_tasks"])
        /\ ProgressAndStatus(store[req[p].skill_program_id]["daily_tasks"])
             = ProgressAndStatus(skill_program_doc[p]["daily_tasks"])

\* C4: when an update has returned, every task that no report of its batch
\* names has, in the store and in the returned program, the progress and
\* status it had in the document the update read.
C4_UnaddressedUnchanged ==
  \A p \in Procs : UpdateReturned(p) =>
     LET before == skill_program_doc[p]["daily_tasks"]
         after == store[req[p].skill_program_id]["daily_tasks"]
         given == result[p].program.daily_tasks
     IN /\ Len(after) = Len(before) /\ Len(given) = Len(before)
        /\ \A i \in 1..Len(before) :
              ~Named(req[p].progress_data, before[i].day) =>
                 /\ after[i].progress = before[i].progress
                 /\ after[i].status = before[i].status
                 /\ given[i].progress = before[i].progress
                 /\ given[i].status = before[i].status

\* An update changed a task it names and left alone a task, already at 150
\* and completed, that it does not name.
C4_Witness ==
  \E p \in Procs : UpdateReturned(p) /\
     LET before == skill_program_doc[p]["daily_tasks"]
         after == store[req[p].skill_program_id]["daily_tasks"]
     IN \E i, j \in 1..Len(before) :
           /\ Named(req[p].progress_data, before[i].day)
           /\ after[i].progress # before[i].progress
           /\ ~Named(req[p].progress_data, before[j].day)
           /\ before[j].progress = 150 /\ after[j].status = "completed"

\* d is num/den truncated toward zero (den > 0).
IsTruncation(d, num, den) ==
  IF num >= 0
  THEN d >= 0 /\ d * den <= num /\ num < (d + 1) * den
  ELSE d <= 0 /\ d * den >= num /\ num > (d - 1) * den

C5_WitnessEmpty ==
  \E p \in Procs : UpdateReturned(p) /\
     /\ req[p].context_changes.changes = <<>>
     /\ store[req[p].skill_program_id]["expected_completion_date"]
          = skill_program_doc[p]["expected_completion_date"]


\* The step is the write of p's update (update_one completing).
WriteStep(p) ==
  /\ IsUpdate(p) /\ pc[p] = "update_one"
  /\ pc'[p] = "done" /\ result'[p].kind = "ok"

\* C6: a step that changes the store on behalf of an update returns, in the
\* same step, the program whose tasks and date the store now holds; a step
\* in which an update raises leaves the store as it is, and so does every
\* step of an update before its write.
C6_AllOrNothing ==
  [][ /\ \A p \in Procs :
           (IsUpdate(p)' /\ result'[p].kind = "error" /\ result[p].kind # "error")
             => store' = store
      /\ (store' # store /\ \E p \in Procs : IsUpdate(p) /\ pc'[p] # pc[p])
           => \E p \in Procs :
                 /\ WriteStep(p)
                 /\ result'[p].program.daily_tasks
                      = store'[req[p].skill_program_id]["daily_tasks"]
                 /\ result'[p].program.expected_completion_date
                      = store'[req[p].skill_program_id]["expected_completion_date"]
                 /\ result'[p].program.skill_name
                      = store'[req[p].skill_program_id]["skill_name"]
                 /\ result'[p].program.total_hours
                      = store'[req[p].skill_program_id]["total_hours"]
    ]_vars

\* An update raised on its second report after its first report had resolved
\* to a task: the stored task does not carry the first report's progress.
C6_Witness ==
  \E p \in Procs :
     /\ UpdateRaised(p)
     /\ req[p].skill_program_id \in DOMAIN store
     /\ Len(req[p].progress_data) = 2
     /\ int(req[p].progress_data[1].node_id).ok
     /\ \E k \in 1..Len(store[req[p].skill_program_id]["daily_tasks"]) :
          LET t == store[req[p].skill_program_id]["daily_tasks"][k]
          IN /\ t.day = int(req[p].progress_data[1].node_id).value
             /\ t.progress # req[p].progress_data[1].completion_percentage

\* C7: nothing orders two updates of one plan: the write of an update puts
\* the whole task list and the date that update computed from its own read
\* into the store, whatever another update has written since that read.
C7_LastWriteWins ==
  [][ \A p \in Procs : WriteStep(p) =>
         /\ store'[req[p].skill_program_id]["daily_tasks"] = daily_tasks[p]
         /\ store'[req[p].skill_program_id]["expected_completion_date"]
              = expected_completion_date[p]
    ]_vars

\* Two updates of one plan have both returned, and the store holds neither
\* the progress one of them reported for a task the other does not name nor
\* its shift of the date.
C7_Witness ==
  \E p, q \in Procs :
     /\ p # q /\ UpdateReturned(p) /\ UpdateReturned(q)
     /\ req[p].skill_program_id = req[q].skill_program_id
     /\ LET tasks == store[req[p].skill_program_id]["daily_tasks"]
        IN \E i \in 1..Len(tasks) :
              /\ Named(req[q].progress_data, tasks[i].day)
              /\ ~Named(req[p].progress_data, tasks[i].day)
              /\ tasks[i].progress # daily_tasks[q][i].progress
     /\ expected_completion_date[q] # skill_program_doc[q]["expected_completion_date"]
     /\ store[req[p].skill_program_id]["expected_completion_date"]
          # expected_completion_date[q]

\* C8: a stored plan changes only in the write of an update addressed to its
\* own identifier: no update of another plan and no generation changes it,
\* and it stays in the store.
C8_PlansIndependent ==
  [][ \A id \in DOMAIN store :
         /\ id \in DOMAIN store'
         /\ store'[id] # store[id] =>
              \E p \in Procs : WriteStep(p) /\ req[p].skill_program_id = id
    ]_vars

\* With two plans stored, an update of the first has returned and changed
\* it, a generation has returned, and the second plan is as generated.
C8_Witness ==
  /\ DOMAIN store = {1, 2}
  /\ \E p \in Procs :
        /\ UpdateReturned(p) /\ req[p].skill_program_id = 1
        /\ store[1]["daily_tasks"] # skill_program_doc[p]["daily_tasks"]
  /\ \A i \in 1..Len(store[2]["daily_tasks"]) : store[2]["daily_tasks"][i].progress = 0
  /\ store[2]["expected_completion_date"] = store[2]["created_at"] + 30

\* C9: an update addressed to a well-formed identifier that is not in the
\* store ends with PlanNotFoundError, and the store holds no such plan.
C9_PlanNotFound ==
  \A p \in Procs :
     ( /\ UpdateRaised(p)
       /\ ObjectId(req[p].skill_program_id).ok
       /\ req[p].skill_program_id \notin DOMAIN store )
     => result[p].error = "PlanNotFoundError"

\* What an update must leave alone in a document.
StaticTask(t) == [k \in DOMAIN t \ {"progress", "status"} |-> t[k]]

StaticPart(doc) ==
  [k \in DOMAIN doc \ {"expected_completion_date", "updated_at"} |->
     IF k = "daily_tasks"
     THEN [i \in 1..Len(doc[k]) |-> StaticTask(doc[k][i])]
     ELSE doc[k]]

\* C10: no step removes a stored plan or changes anything of it but the
\* progress and status of its tasks, its expected completion date and its
\* updated_at: the tasks, their order, day, name, description, difficulty,
\* hours and resources, and the plan's name, description and total hours stay.
C10_OnlyProgressAndDates ==
  [][ \A id \in DOMAIN store :
         /\ id \in DOMAIN store'
         /\ StaticPart(store'[id]) = StaticPart(store[id])
    ]_vars

\* An update has changed the progress of a task that has resources, the
\* expected completion date and updated_at of a stored plan.
C10_Witness ==
  \E p \in Procs : UpdateReturned(p) /\
     LET before == skill_program_doc[p]
         after == store[req[p].skill_program_id]
     IN /\ \E i \in 1..Len(after["daily_tasks"]) :
              /\ after["daily_tasks"][i].progress # before["daily_tasks"][i].progress
              /\ after["daily_tasks"][i].resources # <<>>
        /\ after["expected_completion_date"] # before["expected_completion_date"]
        /\ after["updated_at"] # before["updated_at"]


\* ------------------------------------------------------ generation claims
IsGenerate(p) == "op" \in DOMAIN req[p] /\ req[p].op = "generate"

\* The generation of p has built its tasks and its document.
Built(p) ==
  /\ IsGenerate(p)
  /\ \/ pc[p] = "insert_one"
     \/ pc[p] = "done" /\ result[p].kind = "ok"

GenerateReturned(p) == IsGenerate(p) /\ pc[p] = "done" /\ result[p].kind = "ok"

\* The raw daily tasks the agent handed to the generation of p.
RawTasks(p) ==
  generate_skill_hierarchy(req[p].skill_name, req[p].outcome)["skill_program"]["daily_tasks"]

Fresh(tasks) ==
  \A i \in 1..Len(tasks) : tasks[i].progress = 0 /\ tasks[i].status = "not_started"

\* C11: every task of a generated plan, in the document built, in the
\* program returned and in the document stored, has progress 0 and status
\* not_started, whatever progress and status the raw entries carry.
C11_GeneratedUnstarted ==
  \A p \in Procs : Built(p) =>
     /\ Fresh(daily_tasks[p])
     /\ Fresh(skill_program_doc[p]["daily_tasks"])
     /\ GenerateReturned(p) =>
          /\ Fresh(result[p].program.daily_tasks)
          /\ Fresh(store[result[p].program.id]["daily_tasks"])

\* A plan has been generated and stored from raw output in which an entry
\* carries progress 50 and status completed.
C11_Witness ==
  \E p \in Procs : GenerateReturned(p) /\
     /\ \E i \in 1..Len(RawTasks(p)) :
           /\ "progress" \in DOMAIN RawTasks(p)[i]
           /\ RawTasks(p)[i]["progress"] = 50
           /\ RawTasks(p)[i]["status"] = "completed"
     /\ result[p].program.id \in DOMAIN store

\* The days of the tasks are 1, 2, ..., 30 in this order.
ValidSchedule(tasks) ==
  Len(tasks) = 30 /\ \A i \in 1..Len(tasks) : tasks[i]["day"] = i

\* C12: a generation whose raw task list is not the days 1..30 in ascending
\* order, each once, ends with InvalidScheduleError and stores nothing, so
\* every stored program has exactly these days in this order.
C12_ScheduleValidated ==
  /\ \A p \in Procs :
        ( /\ IsGenerate(p) /\ pc[p] = "done"
          /\ \A i \in 1..Len(RawTasks(p)) : TaskDataComplete(RawTasks(p)[i])
          /\ ~ValidSchedule(RawTasks(p)) )
        => /\ result[p].kind = "error"
           /\ result[p].error \in {"InvalidScheduleError", "StoreError"}
  /\ \A id \in DOMAIN store : ValidSchedule(store[id]["daily_tasks"])

RECURSIVE HoursFrom(_, _)
HoursFrom(tasks, i) ==
  IF i > Len(tasks) THEN 0 ELSE tasks[i]["estimated_hours"] + HoursFrom(tasks, i + 1)

\* C14: the total hours of a generated program, as stored and as returned,
\* are the sum of the estimated hours of its tasks, whatever total the
\* generator reports.
C14_TotalHours ==
  /\ \A id \in DOMAIN store :
        store[id]["total_hours"] = HoursFrom(store[id]["daily_tasks"], 1)
  /\ \A p \in Procs : Built(p) =>
        /\ skill_program_doc[p]["total_hours"] = HoursFrom(daily_tasks[p], 1)
        /\ GenerateReturned(p) =>
             result[p].program.total_hours = HoursFrom(result[p].program.daily_tasks, 1)

\* A program whose generator reported 99 hours is stored with the 3 hours
\* its two tasks add up to.
C14_Witness ==
  \E p \in Procs : GenerateReturned(p) /\
     /\ generate_skill_hierarchy(req[p].skill_name, req[p].outcome)
          ["skill_program"]["total_hours"] = 99
     /\ store[result[p].program.id]["total_hours"] = 3
     /\ Len(store[result[p].program.id]["daily_tasks"]) = 2


\* The id of the plan the finished request p was about.
PlanOf(p) == IF req[p].op = "generate" THEN result[p].program.id ELSE req[p].skill_program_id

\* C13 as stated: a generation whose agent execution raised ends with an
\* error.
C13_EveryFailurePropagates ==
  \A p \in Procs :
     (IsGenerate(p) /\ pc[p] = "done" /\ req[p].outcome.kind = "raises")
       => result[p].kind = "error"

\* C13, amended: a request ends in the step in which find_one, insert_one or
\* update_one raises, with that error and the store as it was; a request
\* that ends normally returns the tasks and the date the store holds for its
\* plan after that step; and a generation whose agent execution raised or
\* answered no JSON goes on with the fallback program, so that the only
\* error it can end with is the store's.
C13_StoreFailuresPropagate ==
  [][ \A p \in Procs : (pc[p] # "done" /\ pc'[p] = "done") =>
         /\ result'[p].kind \in {"ok", "error"}
         /\ result'[p].kind = "error" => store' = store
         /\ result'[p].kind = "ok" =>
              /\ PlanOf(p)' \in DOMAIN store'
              /\ store'[PlanOf(p)']["daily_tasks"] = result'[p].program.daily_tasks
              /\ store'[PlanOf(p)']["expected_completion_date"]
                   = result'[p].program.expected_completion_date
              /\ \/ store' # store
                 \/ /\ IsUpdate(p)
                    /\ store[PlanOf(p)']["daily_tasks"] = daily_tasks[p]
                    /\ store[PlanOf(p)']["expected_completion_date"]
                         = expected_completion_date[p]
         /\ (IsGenerate(p)' /\ req'[p].outcome.kind # "json") =>
              /\ pc[p] = "insert_one"
              /\ Len(daily_tasks[p]) = FallbackDays
              /\ result'[p].kind = "error" => result'[p].error = "StoreError"
    ]_vars

\* A generation whose agent execution raised went on to insert_one, which
\* raised: the request ended with the store's error.
C13_Witness ==
  \E p \in Procs :
     /\ IsGenerate(p) /\ pc[p] = "done"
     /\ req[p].outcome.kind = "raises"
     /\ result[p].kind = "error" /\ result[p].error = "StoreError"

\* C16: a generation whose raw task list holds an entry that lacks a required
\* field ends with MalformedPlanError, and stores nothing.
C16_MalformedPlanError ==
  \A p \in Procs :
     ( /\ IsGenerate(p) /\ pc[p] = "done"
       /\ \E i \in 1..Len(RawTasks(p)) : ~TaskDataComplete(RawTasks(p)[i]) )
     => /\ result[p].kind = "error"
        /\ result[p].error = "MalformedPlanError"

DerivedStatus(progress) ==
  IF progress = 0 THEN "not_started"
  ELSE IF progress >= 100 THEN "completed"
  ELSE "in_progress"

\* C17: every task of every stored plan has the status derived from its own
\* progress, and a progress within 0..100.
C17_StoredTasksConsistent ==
  \A id \in DOMAIN store :
     \A i \in 1..Len(store[id]["daily_tasks"]) :
        LET t == store[id]["daily_tasks"][i]
        IN /\ t.status = DerivedStatus(t.progress)
           /\ t.progress >= 0 /\ t.progress <= 100

\* The positions of the reports of the batch that name the day.
Naming(progress_data, day) ==
  { j \in 1..Len(progress_data) :
      int(progress_data[j].node_id).ok /\ int(progress_data[j].node_id).value = day }

Last(positions) == CHOOSE j \in positions : \A k \in positions : k <= j

\* C19: after an update has applied its batch, every task whose day some
\* report names, every one of several tasks sharing that day included, has
\* the progress of the last report of the batch naming the day and the
\* status derived from it; the store and the returned program hold the same.
C19_BatchOrder ==
  \A p \in Procs : Applied(p) =>
     LET pd == req[p].progress_data
         before == skill_program_doc[p]["daily_tasks"]
     IN /\ Len(daily_tasks[p]) = Len(before)
        /\ \A i \in 1..Len(before) : Naming(pd, before[i].day) # {} =>
              LET last == pd[Last(Naming(pd, before[i].day))]
              IN /\ daily_tasks[p][i].progress = last.completion_percentage
                 /\ daily_tasks[p][i].status = DerivedStatus(last.completion_percentage)
                 /\ UpdateReturned(p) =>
                      /\ store[req[p].skill_program_id]["daily_tasks"][i].progress
                           = last.completion_percentage
                      /\ result[p].program.daily_tasks[i].status
                           = DerivedStatus(last.completion_percentage)

\* An update of a plan whose two tasks are both of day 1, with the reports
\* 50 and then 100 for day 1, has left both tasks at 100 and completed.
C19_Witness ==
  \E p \in Procs : UpdateReturned(p) /\
     LET pd == req[p].progress_data
         after == store[req[p].skill_program_id]["daily_tasks"]
     IN /\ Len(pd) = 2 /\ Naming(pd, 1) = {1, 2}
        /\ pd[1].completion_percentage = 50 /\ pd[2].completion_percentage = 100
        /\ Len(after) = 2
        /\ after[1].day = 1 /\ after[2].day = 1
        /\ after[1].progress = 100 /\ after[2].progress = 100
        /\ after[1].status = "completed" /\ after[2].status = "completed"

\* C20: when the agent execution raises or answers no JSON, the program
\* generate_skill_hierarchy returns has 30 daily tasks, the i-th of day i and
\* of 1 estimated hour; the document built from it, and stored, has total
\* hours 30 and every task at progress 0 and not_started.
C20_Fallback ==
  \A p \in Procs : (Built(p) /\ req[p].outcome.kind # "json") =>
     /\ Len(RawTasks(p)) = 30
     /\ \A i \in 1..30 :
           RawTasks(p)[i]["day"] = i /\ RawTasks(p)[i]["estimated_hours"] = 1
     /\ Len(daily_tasks[p]) = 30
     /\ \A i \in 1..30 : daily_tasks[p][i].day = i /\ daily_tasks[p][i].estimated_hours = 1
     /\ Fresh(daily_tasks[p])
     /\ skill_program_doc[p]["total_hours"] = 30
     /\ skill_program_doc[p]["daily_tasks"] = daily_tasks[p]
     /\ GenerateReturned(p) =>
          /\ store[result[p].program.id]["total_hours"] = 30
          /\ store[result[p].program.id]["daily_tasks"] = daily_tasks[p]
          /\ result[p].program.total_hours = 30

\* A generation whose agent answered no JSON has stored a program of 30
\* tasks and 30 hours.
C20_Witness ==
  \E p \in Procs : GenerateReturned(p) /\
     /\ req[p].outcome.kind = "not_json"
     /\ Len(store[result[p].program.id]["daily_tasks"]) = 30
     /\ store[result[p].program.id]["total_hours"] = 30


\* The depth of a node by its chain of parents: 0 for a node without parent.
RECURSIVE ChainDepth(_, _)
ChainDepth(nodes, skill_id) ==
  IF nodes[skill_id].parent_id = <<>> THEN 0
  ELSE 1 + ChainDepth(nodes, nodes[skill_id].parent_id[1])

\* C15: every node _create_nodes_from_llm_output returns has the depth of
\* its chain of parents, whatever depth the raw output reports.
C15_DepthFromParentChain ==
  \A p \in Procs :
     ( /\ "op" \in DOMAIN req[p] /\ req[p].op = "create_nodes"
       /\ pc[p] = "done" /\ result[p].kind = "ok" )
     => \A skill_id \in DOMAIN result[p].nodes :
           result[p].nodes[skill_id].depth = ChainDepth(result[p].nodes, skill_id)


\* q has applied, to what p wrote, the update p had applied.
AppliedAgain(p, q) ==
  /\ p # q
  /\ UpdateReturned(p) /\ UpdateReturned(q)
  /\ req[q] = req[p]
  /\ skill_program_doc[q]["daily_tasks"] = result[p].program.daily_tasks
  /\ skill_program_doc[q]["expected_completion_date"]
       = result[p].program.expected_completion_date

\* C18: when an update is applied a second time to what its first
\* application left, the progress and status of every task are those the
\* first application left; without context changes the expected completion
\* date is the one the first application left as well, and with context
\* changes that moved it by d days, d not 0, the second application has
\* moved it by d days again.
C18_Idempotence ==
  \A p, q \in Procs : AppliedAgain(p, q) =>
     LET id == req[p].skill_program_id
         cc == req[p].context_changes
         read == skill_program_doc[p]["expected_completion_date"]
         once == result[p].program.expected_completion_date
         twice == store[id]["expected_completion_date"]
     IN /\ ProgressAndStatus(store[id]["daily_tasks"])
             = ProgressAndStatus(result[p].program.daily_tasks)
        /\ ProgressAndStatus(result[q].program.daily_tasks)
             = ProgressAndStatus(result[p].program.daily_tasks)
        /\ result[q].program.expected_completion_date = twice
        /\ IF cc.present /\ cc.changes # <<>>
           THEN /\ twice - once = once - read
                /\ (once # read => twice # once)
           ELSE twice = once /\ once = read

\* An update without context changes that changed a task has been applied
\* again: the task is as the first application left it.
C18_Witness ==
  \E p, q \in Procs : AppliedAgain(p, q) /\
     /\ ~req[p].context_changes.present
     /\ ProgressAndStatus(skill_program_doc[p]["daily_tasks"])
          # ProgressAndStatus(result[p].program.daily_tasks)
     /\ ProgressAndStatus(store[req[p].skill_program_id]["daily_tasks"])
          = ProgressAndStatus(result[p].program.daily_tasks)

\* An update whose context changes move the date by 7 days has been applied
\* twice: the date has moved by 14 days.
C18_WitnessShift ==
  \E p, q \in Procs : AppliedAgain(p, q) /\
     /\ result[p].program.expected_completion_date
          = skill_program_doc[p]["expected_completion_date"] + 7
     /\ store[req[p].skill_program_id]["expected_completion_date"]
          = skill_program_doc[p]["expected_completion_date"] + 14

====
